---- MODULE Spec2Model ----
(***************************************************************************)
(* Model of kleaf/impl/ddk/gen_makefiles.py: the generator of the DDK      *)
(* module Makefile and Kbuild files.                                       *)
(*                                                                         *)
(* Text is a sequence of atoms.  An atom is a TLA+ string standing for a   *)
(* piece of the real text: a single special character (" ", "\n", "'",     *)
(* "/", ".", "$", ...), a word of [A-Za-z0-9_] characters, or a literal    *)
(* chunk of one of the program's format strings that no character-level    *)
(* operation ever looks into ("obj-m += ", "# Source: ", ...).             *)
(* Concatenating the atoms of a text gives the real text.                  *)
(*                                                                         *)
(* A path (pathlib.PurePosixPath, relative) is the sequence of its parts;  *)
(* a part (a file name) is a text without "/".                             *)
(***************************************************************************)
EXTENDS Integers, Sequences, FiniteSets, TLC

(***************************************************************************)
(* Bounds of the model                                                     *)
(***************************************************************************)
MaxDepth == 2     \* segments of the package path
MaxSrcs == 2      \* declared sources, beside the three-source scenario
MaxList == 2      \* include dirs, symvers files
MaxCopts == 2     \* records of the options file
MaxLen == 3       \* atoms of a flag string given to _write_ccflag alone

(***************************************************************************)
(* Generic helpers on sequences                                            *)
(***************************************************************************)
SeqsUpTo(S, n) == UNION {[1..k -> S] : k \in 0..n}

RECURSIVE Concat(_)
Concat(ss) == IF ss = <<>> THEN <<>> ELSE Head(ss) \o Concat(Tail(ss))

Rep(x, n) == [i \in 1..n |-> x]

Last(s) == s[Len(s)]

ButLast(s) == SubSeq(s, 1, Len(s) - 1)

IsPrefix(p, s) == Len(p) <= Len(s) /\ SubSeq(s, 1, Len(p)) = p

\* the sequence `ss` of texts joined with the atom `sep`  (sep.join(ss))
RECURSIVE Join(_, _)
Join(ss, sep) ==
    IF ss = <<>> THEN <<>>
    ELSE IF Len(ss) = 1 THEN ss[1]
    ELSE ss[1] \o <<sep>> \o Join(Tail(ss), sep)

\* text.split(sep): the pieces between the occurrences of the atom `sep`
Split(t, sep) ==
    LET at == {i \in 1..Len(t) : t[i] = sep}
        \* the position of the k-th separator; 0 and Len(t) + 1 bracket the text
        cut(k) == IF k = 0 THEN 0
                  ELSE IF k > Cardinality(at) THEN Len(t) + 1
                  ELSE CHOOSE i \in at : Cardinality({j \in at : j < i}) = k - 1
    IN  [k \in 1..(Cardinality(at) + 1) |-> SubSeq(t, cut(k - 1) + 1, cut(k) - 1)]

(***************************************************************************)
(* textwrap.dedent                                                         *)
(***************************************************************************)
IsBlankAtom(a) == a \in {" ", "\t"}

\* the leading run of spaces and tabs of a line
LeadingWs(l) ==
    LET n == CHOOSE n \in 0..Len(l) :
                /\ \A i \in 1..n : IsBlankAtom(l[i])
                /\ n = Len(l) \/ ~IsBlankAtom(l[n + 1])
    IN  SubSeq(l, 1, n)

CommonPrefix(a, b) ==
    LET m == IF Len(a) < Len(b) THEN Len(a) ELSE Len(b)
        n == CHOOSE n \in 0..m :
                /\ \A i \in 1..n : a[i] = b[i]
                /\ n = m \/ a[n + 1] # b[n + 1]
    IN  SubSeq(a, 1, n)

\* the margin: the longest common leading whitespace of the non-blank lines
RECURSIVE Margin(_)
Margin(ls) ==
    IF Len(ls) = 1 THEN LeadingWs(ls[1])
    ELSE CommonPrefix(LeadingWs(ls[1]), Margin(Tail(ls)))

Dedent(t) ==
    LET raw == Split(t, "\n")
        \* lines of only spaces and tabs are normalised to empty lines
        norm == [i \in 1..Len(raw) |->
                    IF LeadingWs(raw[i]) = raw[i] THEN <<>> ELSE raw[i]]
        nonblank == SelectSeq(norm, LAMBDA l : l # <<>>)
        margin == IF nonblank = <<>> THEN <<>> ELSE Margin(nonblank)
        strip == [i \in 1..Len(norm) |->
                    IF norm[i] = <<>> THEN <<>>
                    ELSE SubSeq(norm[i], Len(margin) + 1, Len(norm[i]))]
    IN  Join(strip, "\n")

(***************************************************************************)
(* shlex.quote and the flag line                                           *)
(***************************************************************************)
\* the atoms of the model that match shlex's [^\w@%+=:,./-]
UnsafeAtoms == {" ", "\t", "\n", "'", "\"", "\\", "$", "(", ")", "#"}

RECURSIVE ReplaceQuote(_)
ReplaceQuote(s) ==
    IF s = <<>> THEN <<>>
    ELSE (IF Head(s) = "'" THEN <<"'", "\"", "'", "\"", "'">> ELSE <<Head(s)>>)
         \o ReplaceQuote(Tail(s))

ShlexQuote(s) ==
    IF s = <<>> THEN <<"'", "'">>
    ELSE IF \A i \in 1..Len(s) : s[i] \notin UnsafeAtoms THEN s
    ELSE <<"'">> \o ReplaceQuote(s) \o <<"'">>

Sp(n) == Rep(" ", n)

CcflagPrefix == "ccflags-y += "

\* the text _write_ccflag appends to the Kbuild for one flag
WriteCcflag(ccflag) ==
    Dedent(Sp(8) \o <<CcflagPrefix>> \o ShlexQuote(ccflag) \o <<"\n">> \o Sp(8))

(***************************************************************************)
(* pathlib: names, suffixes, relative paths                                *)
(***************************************************************************)
DotDot == <<".", ".">>

\* str(path): the parts joined with "/", "." for the empty path
Str(path) == IF path = <<>> THEN <<".">> ELSE Join(path, "/")

Name(path) == IF path = <<>> THEN <<>> ELSE Last(path)

Parent(path) == IF path = <<>> THEN <<>> ELSE ButLast(path)

\* the index of the last "." of a name, 0 when it has none  (str.rfind)
RECURSIVE RFindDot(_, _)
RFindDot(name, i) ==
    IF i = 0 THEN 0 ELSE IF name[i] = "." THEN i ELSE RFindDot(name, i - 1)

\* PurePath.suffix: from the last dot on, unless the dot starts or ends the name
NameSuffix(name) ==
    LET i == RFindDot(name, Len(name))
    IN  IF 1 < i /\ i < Len(name) THEN SubSeq(name, i, Len(name)) ELSE <<>>

Suffix(path) == NameSuffix(Name(path))

\* PurePath.stem of a name
NameStem(name) == SubSeq(name, 1, Len(name) - Len(NameSuffix(name)))

\* PurePath.with_suffix on a path with a non-empty name
WithSuffix(path, suffix) ==
    Append(Parent(path), NameStem(Name(path)) \o suffix)

IsRelativeTo(path, other) == IsPrefix(other, path)

RelativeTo(path, other) == SubSeq(path, Len(other) + 1, Len(path))

\* str.lower on the atoms of the model that hold upper-case letters
LowerAtom(a) ==
    CASE a = "C" -> "c"
      [] a = "H" -> "h"
      [] a = "S" -> "s"
      [] a = "RS" -> "rs"
      [] a = "KO" -> "ko"
      [] a = "TXT" -> "txt"
      [] OTHER -> a

Lower(t) == [i \in 1..Len(t) |-> LowerAtom(t[i])]

\* `a in b` for two strings: a occurs in b as a substring
IsSubstring(a, b) ==
    \E k \in 0..(Len(b) - Len(a)) : SubSeq(b, k + 1, k + Len(a)) = a

\* PurePosixPath(text): the root ("" , "/" or "//") and the parts of a raw
\* string; empty and "." segments are dropped
RECURSIVE LeadingSlashes(_)
LeadingSlashes(t) ==
    IF t # <<>> /\ Head(t) = "/" THEN 1 + LeadingSlashes(Tail(t)) ELSE 0

ParsePath(t) ==
    LET n == LeadingSlashes(t)
        segs == Split(t, "/")
    IN  [root |-> IF n = 0 THEN <<>> ELSE IF n = 2 THEN <<"/", "/">> ELSE <<"/">>,
         parts |-> SelectSeq(segs, LAMBDA g : g # <<>> /\ g # <<".">>)]

\* str(path / text) for a relative path and a raw string
JoinStr(path, t) ==
    LET q == ParsePath(t)
    IN  IF q.root # <<>> THEN q.root \o Join(q.parts, "/")
        ELSE Str(path \o q.parts)

(***************************************************************************)
(* The texts the generator writes                                          *)
(***************************************************************************)
ModuleExt == <<".", "ko">>

ObjectExt == <<".", "o">>

SOURCE_SUFFIXES == {<<".", "c">>, <<".", "rs">>, <<".", "s">>}

\* the right-hand side of `src.suffix.lower() in (".h")`: a string, not a tuple
HeaderExt == <<".", "h">>

MakefileName == <<"Makefile">>

KbuildName == <<"Kbuild">>

\* os.path.join(*([".."] * n)) for n >= 1; with n = 0 the call raises TypeError
MakefileRelRoot(pkg) == Join(Rep(DotDot, Len(pkg)), "/")

SymversText(pkg, module_symvers) ==
    Dedent(Sp(12) \o <<"# Include symbol: ">> \o Str(module_symvers) \o <<"\n">>
           \o Sp(12) \o <<"EXTRA_SYMBOLS += $(OUT_DIR)/$(M)/">> \o MakefileRelRoot(pkg)
           \o <<"/">> \o Str(module_symvers) \o <<"\n">>
           \o Sp(12))

MakefileStanza ==
    Dedent(Sp(8) \o <<"modules modules_install clean:", "\n">>
           \o Sp(8) \o <<"\t", "$(MAKE) -C $(KERNEL_SRC) M=$(M) $(KBUILD_OPTIONS) KBUILD_EXTRA_SYMBOLS=\"$(EXTRA_SYMBOLS)\" $(@)", "\n">>
           \o Sp(8))

\* the content _gen_makefile writes, for a package of at least one segment
MakefileContent(pkg, symvers) ==
    Concat([k \in 1..Len(symvers) |-> SymversText(pkg, symvers[k])]) \o MakefileStanza

\* rel_srcs: the declared sources under the package, relative to it
RelSrcs(pkg, srcs) ==
    LET under == SelectSeq(srcs, LAMBDA src : IsRelativeTo(src, pkg))
    IN  [k \in 1..Len(under) |-> RelativeTo(under[k], pkg)]

\* a check that accepts every output
ValidOutputAlways(out) == TRUE

ValidOutput(out) == Suffix(out) = ModuleExt

\* where the module's Kbuild goes, relative to the output root
KbuildPath(out) == Append(Parent(out), KbuildName)

TopKbuildPath == <<KbuildName>>

ObjMLine(out) == <<"obj-m += ">> \o Name(WithSuffix(out, ObjectExt))

KbuildHeader(pkg, out) ==
    Dedent(Sp(12) \o <<"# Build ">> \o Str(pkg \o out) \o <<"\n">>
           \o Sp(12) \o ObjMLine(out) \o <<"\n">>
           \o Sp(12))
    \o <<"\n">>

IsHeader(src) == IsSubstring(Lower(Suffix(src)), HeaderExt)

IsSource(src) == Lower(Suffix(src)) \in SOURCE_SUFFIXES

\* a namesake test that never matches
IsSelfNever(src, out) == FALSE

IsSelf(src, out) == WithSuffix(src, ModuleExt) = out

UnderModuleDir(src, out) == IsRelativeTo(src, Parent(out))

SelfText(src, out) ==
    Dedent(Sp(20) \o <<"# The module ">> \o Str(out) \o <<" has a source file ">>
           \o Str(src) \o <<"\n">>
           \o Sp(16))

\* an object line that names the object by its package-relative path
ObjectLineFromPackage(src, out) ==
    NameStem(Name(out)) \o <<"-y += ">> \o Str(WithSuffix(src, ObjectExt))

ObjectLine(src, out) ==
    NameStem(Name(out)) \o <<"-y += ">>
    \o Str(RelativeTo(WithSuffix(src, ObjectExt), Parent(out)))

ObjectText(pkg, src, out) ==
    Dedent(Sp(20) \o <<"# Source: ">> \o Str(pkg \o src) \o <<"\n">>
           \o Sp(20) \o ObjectLine(src, out) \o <<"\n">>
           \o Sp(16))

\* what the loop body does with one package-relative source:
\* the branch taken and the text written
SrcStep(pkg, src, out) ==
    IF IsHeader(src) THEN [branch |-> "header", text |-> <<>>]
    ELSE IF ~IsSource(src) THEN [branch |-> "invalid", text |-> <<>>]
    ELSE IF IsSelf(src, out) THEN [branch |-> "self", text |-> SelfText(src, out)]
    ELSE IF ~UnderModuleDir(src, out) THEN [branch |-> "outside", text |-> <<>>]
    ELSE [branch |-> "object", text |-> ObjectText(pkg, src, out)]

\* a loop in which a source outside the module's directory is not fatal
FatalOnlyInvalid(branch) == branch = "invalid"

Fatal(branch) == branch \in {"invalid", "outside"}

\* a relative root that walks up the package only
KbuildRelRootOfPackage(pkg, out) == Rep(DotDot, Len(pkg))

\* rel_root of the Kbuild: one ".." per part of package / kernel_module_out.parent
KbuildRelRoot(pkg, out) == Rep(DotDot, Len(pkg \o Parent(out)))

IncludeFlag(pkg, out, include_dir) ==
    <<"-I", "$", "(", "srctree", ")", "/", "$", "(", "src", ")", "/">>
    \o Str(KbuildRelRoot(pkg, out)) \o <<"/">> \o Str(include_dir)

IncludeText(pkg, out, include_dir) ==
    Dedent(Sp(16) \o <<"# Include ">> \o Str(include_dir) \o <<"\n">> \o Sp(16))
    \o WriteCcflag(IncludeFlag(pkg, out, include_dir))

\* lines 130-141: the blank line after the sources, then the include flags
IncludesText(pkg, out, dirs) ==
    <<"\n">> \o Concat([k \in 1..Len(dirs) |-> IncludeText(pkg, out, dirs[k])])

DefineFlag(local_define) == <<"-D">> \o local_define

\* lines 143-150
DefinesText(defines) ==
    (IF defines # <<>>
     THEN <<"\n">> \o Dedent(Sp(16) \o <<"# local defines", "\n">> \o Sp(16))
     ELSE <<>>)
    \o Concat([k \in 1..Len(defines) |-> WriteCcflag(DefineFlag(defines[k]))])

\* an expansion that prefixes every record, path or not
CoptFlagAlwaysPath(rel_root, d) == JoinStr(rel_root, d.expanded)

CoptFlag(rel_root, d) ==
    IF d.is_path THEN JoinStr(rel_root, d.expanded) ELSE d.expanded

NoCoptFile == [given |-> FALSE, records |-> <<>>]

\* _handle_copt_file: nothing without an options file
CoptsText(rel_root, copt) ==
    IF ~copt.given THEN <<>>
    ELSE <<"\n">> \o Dedent(Sp(8) \o <<"# copts", "\n">> \o Sp(8))
         \o Concat([k \in 1..Len(copt.records) |->
                       WriteCcflag(CoptFlag(rel_root, copt.records[k]))])

\* a recursion line that names the module file instead of its directory
TopKbuildOfModule(pkg, out) ==
    Dedent(Sp(16) \o <<"# Build ">> \o Str(pkg \o out) \o <<"\n">>
           \o Sp(16) \o <<"obj-y += ">> \o Str(out) \o <<"/", "\n">>
           \o Sp(16))

TopKbuildContent(pkg, out) ==
    Dedent(Sp(16) \o <<"# Build ">> \o Str(pkg \o out) \o <<"\n">>
           \o Sp(16) \o <<"obj-y += ">> \o Str(Parent(out)) \o <<"/", "\n">>
           \o Sp(16))

(***************************************************************************)
(* State                                                                   *)
(***************************************************************************)
VARIABLES
    package,              \* --package
    kernel_module_out,    \* --kernel-module-out
    kernel_module_srcs,   \* --kernel-module-srcs
    include_dirs,         \* --include-dirs
    module_symvers_list,  \* --module-symvers-list
    local_defines,        \* --local-defines
    copt_file,            \* --copt-file: [given, records]
    fs,                   \* the files under the output root: path -> [exists, text]
    fs0,                  \* the files as they were before the run
    pc,                   \* where the run is
    idx,                  \* the loop index into rel_srcs
    branches,             \* the branch the loop took for each source so far
    exit_code             \* the process's exit status, -1 while it runs

inputs == <<package, kernel_module_out, kernel_module_srcs, include_dirs,
            module_symvers_list, local_defines, copt_file, fs0>>

vars == <<package, kernel_module_out, kernel_module_srcs, include_dirs,
          module_symvers_list, local_defines, copt_file, fs, fs0, pc, idx,
          branches, exit_code>>

NoFile == [exists |-> FALSE, text |-> <<>>]

File(text) == [exists |-> TRUE, text |-> text]

StaleFile == File(<<"# stale", "\n">>)

rel_srcs == RelSrcs(package, kernel_module_srcs)

kbuild == KbuildPath(kernel_module_out)

\* out_file.write on a file opened for writing
AppendTo(path, text) == [fs EXCEPT ![path] = File(@.text \o text)]

(***************************************************************************)
(* The run of gen_ddk_makefile, one action per step                        *)
(***************************************************************************)
\* lines 85-89, 42-66: _gen_makefile; os.path.join() of no segments raises
GenMakefile ==
    /\ pc = "gen_makefile"
    /\ IF Len(package) = 0
       THEN /\ pc' = "crashed"
            /\ exit_code' = 1
            /\ fs' = fs
       ELSE /\ pc' = "check_output"
            /\ exit_code' = exit_code
            /\ fs' = [fs EXCEPT ![<<MakefileName>>] =
                        File(MakefileContent(package, module_symvers_list))]
    /\ UNCHANGED <<inputs, idx, branches>>

\* lines 96-107: the suffix check, then the Kbuild is opened and its header written
CheckOutput ==
    /\ pc = "check_output"
    /\ IF ~ValidOutput(kernel_module_out)
       THEN /\ pc' = "died"
            /\ exit_code' = 1
            /\ fs' = fs
       ELSE /\ pc' = "srcs"
            /\ exit_code' = exit_code
            /\ fs' = [fs EXCEPT ![kbuild] =
                        File(KbuildHeader(package, kernel_module_out))]
    /\ UNCHANGED <<inputs, idx, branches>>

\* lines 109-128: one iteration of the loop over rel_srcs
ProcessSrc ==
    /\ pc = "srcs"
    /\ idx <= Len(rel_srcs)
    /\ LET step == SrcStep(package, rel_srcs[idx], kernel_module_out)
       IN  /\ branches' = Append(branches, step.branch)
           /\ fs' = AppendTo(kbuild, step.text)
           /\ IF Fatal(step.branch)
              THEN pc' = "died" /\ exit_code' = 1
              ELSE pc' = pc /\ exit_code' = exit_code
    /\ idx' = idx + 1
    /\ UNCHANGED inputs

\* lines 130-141: after the loop, the include flags
WriteIncludes ==
    /\ pc = "srcs"
    /\ idx > Len(rel_srcs)
    /\ fs' = AppendTo(kbuild, IncludesText(package, kernel_module_out, include_dirs))
    /\ pc' = "defines"
    /\ UNCHANGED <<inputs, idx, branches, exit_code>>

\* lines 143-150
WriteDefines ==
    /\ pc = "defines"
    /\ fs' = AppendTo(kbuild, DefinesText(local_defines))
    /\ pc' = "copts"
    /\ UNCHANGED <<inputs, idx, branches, exit_code>>

\* lines 152, 163-179
HandleCoptFile ==
    /\ pc = "copts"
    /\ fs' = AppendTo(kbuild,
                CoptsText(KbuildRelRoot(package, kernel_module_out), copt_file))
    /\ pc' = "top_kbuild"
    /\ UNCHANGED <<inputs, idx, branches, exit_code>>

\* lines 154-161, then the process ends with status 0
WriteTopKbuild ==
    /\ pc = "top_kbuild"
    /\ fs' = IF TopKbuildPath # kbuild
             THEN [fs EXCEPT ![TopKbuildPath] =
                     File(TopKbuildContent(package, kernel_module_out))]
             ELSE fs
    /\ pc' = "done"
    /\ exit_code' = 0
    /\ UNCHANGED <<inputs, idx, branches>>

Next ==
    \/ GenMakefile
    \/ CheckOutput
    \/ ProcessSrc
    \/ WriteIncludes
    \/ WriteDefines
    \/ HandleCoptFile
    \/ WriteTopKbuild

(***************************************************************************)
(* Inputs                                                                  *)
(***************************************************************************)
PkgSeg(k) == IF k = 1 THEN <<"a">> ELSE IF k = 2 THEN <<"b">> ELSE <<"pkg">>

PackageOfDepth(d) == [k \in 1..d |-> PkgSeg(k)]

Packages == {PackageOfDepth(d) : d \in 0..MaxDepth}

F(stem, ext) == <<stem, ".", ext>>

GoodOuts ==
    { << F("mod", "ko") >>,
      << <<"c">>, F("mod", "ko") >>,
      << <<"a">>, <<"b">>, <<"c">>, F("mod", "ko") >> }

BadOuts ==
    { << <<"a">>, <<"b">>, F("mod", "bad") >>,
      << <<"c">>, <<"mod">> >> }

ModuleOuts == GoodOuts \cup BadOuts

\* sources, relative to the package
RelCandidates ==
    { << <<"c">>, F("mod", "c") >>,
      << <<"c">>, F("helper", "c") >>,
      << <<"c">>, F("helper", "h") >>,
      << <<"c">>, <<"README">> >>,
      << <<"c">>, F("x", "txt") >>,
      << <<"lib">>, F("asm", "S") >> }

\* a source that is not under any package of the model
OutsideSrc == << <<"z">>, F("other", "c") >>

SrcCandidates(pkg) == {pkg \o r : r \in RelCandidates} \cup {OutsideSrc}

IncludeCandidates == { << <<"inc">> >>, << <<"x">>, <<"include">> >> }

SymversCandidates ==
    { << <<"dep">>, F("Module", "symvers") >>, << F("other", "symvers") >> }

DefineCandidates == { <<"FOO", "=", "1">>, <<"A", " ", "B">> }

ExpandedCandidates ==
    { <<"opt", "/", "x">>, <<"/", "abs", "/", "x">>,
      <<".", "/", "opt", "/", "/", "x">>, <<>>, <<"a", "\n", " ", "b">> }

CoptRecords == [expanded : ExpandedCandidates, is_path : BOOLEAN]

FilePaths == {<<MakefileName>>} \cup {KbuildPath(o) : o \in ModuleOuts}

InitRun ==
    /\ fs0 \in {[f \in FilePaths |-> NoFile], [f \in FilePaths |-> StaleFile]}
    /\ fs = fs0
    /\ pc = "gen_makefile"
    /\ idx = 1
    /\ branches = <<>>
    /\ exit_code = -1

SomeCopt == [given |-> TRUE, records |-> <<[expanded |-> <<"opt", "/", "x">>, is_path |-> TRUE]>>]

ScenarioSrcs(pkg) ==
    << pkg \o << <<"c">>, F("mod", "c") >>,
       pkg \o << <<"c">>, F("helper", "c") >>,
       pkg \o << <<"c">>, F("helper", "h") >> >>

\* one header under the package: the loop runs and writes nothing
HeaderOnly(pkg) == << pkg \o << <<"c">>, F("helper", "h") >> >>

\* many source lists, with no flags at all or one flag of each kind
Init ==
    /\ package \in Packages
    /\ kernel_module_out \in ModuleOuts
    /\ kernel_module_srcs \in
          SeqsUpTo(SrcCandidates(package), MaxSrcs) \cup {ScenarioSrcs(package)}
    /\ \E some \in BOOLEAN :
        /\ include_dirs = IF some THEN << << <<"inc">> >> >> ELSE <<>>
        /\ module_symvers_list = IF some THEN << << <<"dep">>, F("Module", "symvers") >> >> ELSE <<>>
        /\ local_defines = IF some THEN << <<"FOO", "=", "1">> >> ELSE <<>>
        /\ copt_file = IF some THEN SomeCopt ELSE NoCoptFile
    /\ InitRun

\* many include, symvers and define lists
InitFlags ==
    /\ package \in Packages
    /\ kernel_module_out \in GoodOuts
    /\ kernel_module_srcs = HeaderOnly(package)
    /\ include_dirs \in SeqsUpTo(IncludeCandidates, MaxList)
    /\ module_symvers_list \in SeqsUpTo(SymversCandidates, MaxList)
    /\ local_defines \in {<<>>} \cup {<<d>> : d \in DefineCandidates}
    /\ copt_file = NoCoptFile
    /\ InitRun

\* many options files
InitCopt ==
    /\ package \in Packages
    /\ kernel_module_out \in GoodOuts
    /\ kernel_module_srcs = HeaderOnly(package)
    /\ include_dirs = <<>>
    /\ module_symvers_list = <<>>
    /\ local_defines = <<>>
    /\ copt_file \in {NoCoptFile}
          \cup {[given |-> TRUE, records |-> r] : r \in SeqsUpTo(CoptRecords, MaxCopts)}
    /\ InitRun

\* the characters of a flag string
FlagAlphabet == {"a", " ", "'", "\"", "\\", "$", "\n"}

\* every flag string, as a define or as a record of the options file
InitQuote ==
    /\ package = PackageOfDepth(1)
    /\ kernel_module_out = << <<"c">>, F("mod", "ko") >>
    /\ kernel_module_srcs = HeaderOnly(package)
    /\ include_dirs = <<>>
    /\ module_symvers_list = <<>>
    /\ \E flag \in SeqsUpTo(FlagAlphabet, MaxLen), as_define \in BOOLEAN :
        /\ local_defines = IF as_define THEN <<flag>> ELSE <<>>
        /\ copt_file = IF as_define THEN NoCoptFile
                       ELSE [given |-> TRUE,
                             records |-> <<[expanded |-> flag, is_path |-> FALSE]>>]
    /\ InitRun

Spec == Init /\ [][Next]_vars

SpecFlags == InitFlags /\ [][Next]_vars

SpecCopt == InitCopt /\ [][Next]_vars

SpecQuote == InitQuote /\ [][Next]_vars

(***************************************************************************)
(* What the claims speak of                                                *)
(***************************************************************************)
\* the lines of a file's text: the pieces ended by "\n" (str.splitlines)
Lines(t) ==
    LET ps == Split(t, "\n")
    IN  IF Last(ps) = <<>> THEN ButLast(ps) ELSE ps

Running == pc \notin {"done", "died", "crashed"}

MakefileLines == Lines(fs[<<MakefileName>>].text)

KbuildLines == Lines(fs[kbuild].text)

HasAtom(l, a) == \E j \in 1..Len(l) : l[j] = a

\* the text of a line after its first atom `a`
AfterAtom(l, a) ==
    LET j == CHOOSE j \in 1..Len(l) : l[j] = a /\ \A h \in 1..(j - 1) : l[h] # a
    IN  SubSeq(l, j + 1, Len(l))

CcflagLines == SelectSeq(KbuildLines, LAMBDA l : HasAtom(l, CcflagPrefix))

ObjectLines == SelectSeq(KbuildLines, LAMBDA l : HasAtom(l, "-y += "))

HasLine(ls, l) == \E j \in 1..Len(ls) : ls[j] = l

Dots(n) == Join(Rep(DotDot, n), "/")

ModuleStem == NameStem(Name(kernel_module_out))

CompilableSuffixes == {<<".", "c">>, <<".", "rs">>, <<".", "s">>}

LowerSuffix(src) == Lower(Suffix(src))

\* the source's name with the module extension substituted is the module output
Namesake(src) == WithSuffix(src, <<".", "ko">>) = kernel_module_out

PkgAB == << <<"a">>, <<"b">> >>

(***************************************************************************)
(* Shell word splitting (POSIX rules, as shlex.split), the reader the      *)
(* claims on quoting speak of.  The result is [err, words]: err when a     *)
(* quotation or an escape is left open.                                    *)
(***************************************************************************)
ShellWs == {" ", "\t", "\r", "\n"}

RECURSIVE ShellScan(_, _, _, _)
ShellScan(t, state, tok, words) ==
    IF t = <<>> THEN
        CASE state = "none" -> [err |-> FALSE, words |-> words]
          [] state = "word" -> [err |-> FALSE, words |-> Append(words, tok)]
          [] OTHER -> [err |-> TRUE, words |-> words]
    ELSE
        LET ch == Head(t)
            r == Tail(t)
        IN  CASE state = "none" ->
                    IF ch \in ShellWs THEN ShellScan(r, "none", <<>>, words)
                    ELSE IF ch = "\\" THEN ShellScan(r, "esc", <<>>, words)
                    ELSE IF ch = "'" THEN ShellScan(r, "sq", <<>>, words)
                    ELSE IF ch = "\"" THEN ShellScan(r, "dq", <<>>, words)
                    ELSE ShellScan(r, "word", <<ch>>, words)
              [] state = "word" ->
                    IF ch \in ShellWs THEN ShellScan(r, "none", <<>>, Append(words, tok))
                    ELSE IF ch = "\\" THEN ShellScan(r, "esc", tok, words)
                    ELSE IF ch = "'" THEN ShellScan(r, "sq", tok, words)
                    ELSE IF ch = "\"" THEN ShellScan(r, "dq", tok, words)
                    ELSE ShellScan(r, "word", Append(tok, ch), words)
              [] state = "sq" ->
                    IF ch = "'" THEN ShellScan(r, "word", tok, words)
                    ELSE ShellScan(r, "sq", Append(tok, ch), words)
              [] state = "dq" ->
                    IF ch = "\"" THEN ShellScan(r, "word", tok, words)
                    ELSE IF ch = "\\" THEN ShellScan(r, "dqesc", tok, words)
                    ELSE ShellScan(r, "dq", Append(tok, ch), words)
              [] state = "esc" -> ShellScan(r, "word", Append(tok, ch), words)
              [] state = "dqesc" ->
                    IF ch \in {"\"", "\\"} THEN ShellScan(r, "dq", Append(tok, ch), words)
                    ELSE ShellScan(r, "dq", tok \o <<"\\", ch>>, words)

ShellSplit(t) == ShellScan(t, "none", <<>>, <<>>)

(***************************************************************************)
(* C1: every declared source under the package is skipped as a header iff  *)
(* its lower-cased suffix is .h, accepted as compilable iff the suffix is  *)
(* .c, .rs or .s, and with any other suffix, or none, the run fails        *)
(* fatally; none is silently ignored.                                      *)
(***************************************************************************)
\* C1: the lower-cased suffix alone decides header / compilable / fatal
C1_SuffixDecidesHandling ==
    \A k \in 1..Len(branches) :
        LET sfx == LowerSuffix(rel_srcs[k])
            b == branches[k]
        IN  /\ b = "header" <=> sfx = <<".", "h">>
            /\ b \in {"self", "object", "outside"} <=> sfx \in CompilableSuffixes
            /\ (sfx # <<".", "h">> /\ sfx \notin CompilableSuffixes)
                  => (b = "invalid" /\ pc = "died" /\ exit_code = 1)

(***************************************************************************)
(* C2: for every package of d >= 0 segments the Makefile is written, each  *)
(* EXTRA_SYMBOLS line holding a relative root of exactly d ".." segments,  *)
(* then the fixed stanza; with d = 0 the root is empty and the run does    *)
(* not fail.                                                               *)
(***************************************************************************)
C2_ExpectedMakefile ==
    Concat([k \in 1..Len(module_symvers_list) |->
              << <<"# Include symbol: ">> \o Str(module_symvers_list[k]),
                 <<"EXTRA_SYMBOLS += $(OUT_DIR)/$(M)/">> \o Dots(Len(package))
                    \o <<"/">> \o Str(module_symvers_list[k]) >>])
    \o << <<"modules modules_install clean:">>,
          <<"\t", "$(MAKE) -C $(KERNEL_SRC) M=$(M) $(KBUILD_OPTIONS) KBUILD_EXTRA_SYMBOLS=\"$(EXTRA_SYMBOLS)\" $(@)">> >>

\* C2: once _gen_makefile has run the Makefile is there, for every depth d >= 0
C2_MakefileForEveryDepth ==
    pc # "gen_makefile" =>
        /\ pc # "crashed"
        /\ fs[<<MakefileName>>].exists
        /\ MakefileLines = C2_ExpectedMakefile

(***************************************************************************)
(* C6: every flag value written to the Kbuild is shell-escaped so that     *)
(* shell-word-splitting the text after "ccflags-y += " on its emitted line *)
(* gives exactly one word, the original flag string.                       *)
(***************************************************************************)
FlagsWritten ==
    [k \in 1..Len(include_dirs) |->
        IncludeFlag(package, kernel_module_out, include_dirs[k])]
    \o [k \in 1..Len(local_defines) |-> DefineFlag(local_defines[k])]
    \o [k \in 1..Len(copt_file.records) |->
        CoptFlag(KbuildRelRoot(package, kernel_module_out), copt_file.records[k])]

\* C6: each flag line splits back into the one flag string it was written for
C6_FlagLinesSplitBack ==
    pc \in {"top_kbuild", "done"} =>
        /\ Len(CcflagLines) = Len(FlagsWritten)
        /\ \A k \in 1..Len(CcflagLines) :
            /\ CcflagLines[k][1] = CcflagPrefix
            /\ ShellSplit(AfterAtom(CcflagLines[k], CcflagPrefix))
                  = [err |-> FALSE, words |-> <<FlagsWritten[k]>>]

(***************************************************************************)
(* C3: the scenario package=a/b, sources=[a/b/c/mod.c, a/b/c/helper.c,     *)
(* a/b/c/helper.h] succeeds with `obj-m += mod.o`, a comment for mod.c,    *)
(* `mod-y += helper.o` and no line for helper.h; the object lines come in  *)
(* declared order, one per compilable non-namesake source, each naming the *)
(* .o path relative to the module's directory.                             *)
(* As stated the module output is a/b/c/mod.ko and every declared source   *)
(* counts; as amended the module output is c/mod.ko, relative to the       *)
(* package, and the sources that count are those under the package.        *)
(***************************************************************************)
C3_Scenario(out) ==
    /\ package = PkgAB
    /\ kernel_module_out = out
    /\ kernel_module_srcs = ScenarioSrcs(PkgAB)

C3_ScenarioKbuild ==
    /\ HasLine(KbuildLines, <<"obj-m += ", "mod", ".", "o">>)
    /\ HasLine(KbuildLines,
               <<"# The module ">> \o Str(kernel_module_out)
               \o <<" has a source file ", "c", "/", "mod", ".", "c">>)
    /\ ObjectLines = << <<"mod", "-y += ", "helper", ".", "o">> >>
    /\ \A j \in 1..Len(KbuildLines) :
          ~IsSubstring(<<"helper", ".", "h">>, KbuildLines[j])

\* the object line of a source given relative to the package
C3_ObjectLineOf(src) ==
    ModuleStem \o <<"-y += ">>
    \o (IF Parent(src) = Parent(kernel_module_out) THEN <<>>
        ELSE Str(RelativeTo(Parent(src), Parent(kernel_module_out))) \o <<"/">>)
    \o NameStem(Name(src)) \o <<".", "o">>

C3_ExpectedObjectLines(srcs) ==
    LET counted == SelectSeq(srcs, LAMBDA src :
                      LowerSuffix(src) \in CompilableSuffixes /\ ~Namesake(src))
    IN  [k \in 1..Len(counted) |-> C3_ObjectLineOf(counted[k])]

\* C3 as stated: moduleOut=a/b/c/mod.ko, every declared source counted
C3_AsStated ==
    /\ C3_Scenario(PkgAB \o << <<"c">>, F("mod", "ko") >>) =>
          /\ pc \notin {"died", "crashed"}
          /\ pc = "done" => C3_ScenarioKbuild
    /\ pc = "done" =>
          ObjectLines = C3_ExpectedObjectLines(
              [k \in 1..Len(kernel_module_srcs) |->
                  IF IsRelativeTo(kernel_module_srcs[k], package)
                  THEN RelativeTo(kernel_module_srcs[k], package)
                  ELSE kernel_module_srcs[k]])

\* C3 as amended: moduleOut=c/mod.ko, the sources under the package counted
C3_ObjectLinesInOrder ==
    /\ C3_Scenario(<< <<"c">>, F("mod", "ko") >>) =>
          /\ pc \notin {"died", "crashed"}
          /\ pc = "done" => C3_ScenarioKbuild
    /\ pc = "done" =>
          ObjectLines = C3_ExpectedObjectLines(
              LET under == SelectSeq(kernel_module_srcs,
                              LAMBDA src : IsPrefix(package, src))
              IN  [k \in 1..Len(under) |->
                      SubSeq(under[k], Len(package) + 1, Len(under[k]))])

C3_Witness ==
    /\ C3_Scenario(<< <<"c">>, F("mod", "ko") >>)
    /\ pc = "done"
    /\ exit_code = 0

(***************************************************************************)
(* C4: for each include directory, in declared order, the Kbuild holds a   *)
(* flag line for -I$(srctree)/$(src)/<relative root>/<include dir>.        *)
(* As stated the line is unquoted and, with includeDirs=[inc],             *)
(* package=a/b, moduleOut=a/b/c/mod.ko, it is exactly                      *)
(* `ccflags-y += -I$(srctree)/$(src)/../inc`.  As amended the relative     *)
(* root has one ".." per segment of the package joined with the module's   *)
(* directory, the value is single-quoted (it holds "$"), and the line of   *)
(* the scenario is `ccflags-y += '-I$(srctree)/$(src)/../../../../../inc'`.*)
(***************************************************************************)
C4_Scenario ==
    /\ package = PkgAB
    /\ kernel_module_out = PkgAB \o << <<"c">>, F("mod", "ko") >>
    /\ include_dirs = << << <<"inc">> >> >>

C4_IncludeValue(n, dir) ==
    <<"-I", "$", "(", "srctree", ")", "/", "$", "(", "src", ")", "/">>
    \o Dots(n) \o <<"/">> \o Str(dir)

\* the first flag lines of the Kbuild, one per include directory
C4_IncludeLines == SubSeq(CcflagLines, 1, Len(include_dirs))

\* C4 as stated: the scenario's line is ccflags-y += -I$(srctree)/$(src)/../inc
C4_AsStated ==
    (C4_Scenario /\ pc = "done") =>
        C4_IncludeLines = << <<CcflagPrefix>> \o C4_IncludeValue(1, << <<"inc">> >>) >>

\* C4 as amended: one quoted -I line per include directory, in order, with one
\* ".." per segment of package / module directory
C4_IncludeFlagLines ==
    pc \in {"defines", "copts", "top_kbuild", "done"} =>
        LET lines == KbuildLines
            flags == SelectSeq(lines, LAMBDA l : HasAtom(l, CcflagPrefix))
            first == SubSeq(flags, 1, Len(include_dirs))
        IN  /\ Len(flags) >= Len(include_dirs)
            /\ first =
                  [k \in 1..Len(include_dirs) |->
                      <<CcflagPrefix, "'">>
                      \o C4_IncludeValue(Len(package) + Len(kernel_module_out) - 1,
                                         include_dirs[k])
                      \o <<"'">>]
            /\ \A k \in 1..Len(include_dirs) :
                  \E j \in 1..(Len(lines) - 1) :
                      /\ lines[j] = <<"# Include ">> \o Str(include_dirs[k])
                      /\ lines[j + 1] = first[k]
            /\ C4_Scenario =>
                  first = << <<CcflagPrefix, "'">>
                             \o C4_IncludeValue(5, << <<"inc">> >>) \o <<"'">> >>

C4_Witness == C4_Scenario /\ pc = "done"

(***************************************************************************)
(* C5: for every record of the options file, in file order and without     *)
(* deduplication, exactly one flag line is written; nothing at all is      *)
(* added without an options file.  As stated the value of a path record is *)
(* `expanded` prefixed with the Kbuild relative root, for every `expanded`.*)
(* As amended it is the path join of the relative root and `expanded`: the *)
(* segments of a relative `expanded` (empty and "." segments dropped)      *)
(* after the root's ".." segments, and an absolute `expanded` itself, with *)
(* no prefix.  The value of any other record is `expanded` unchanged.      *)
(***************************************************************************)
C5_Segments(expanded) ==
    SelectSeq(Split(expanded, "/"), LAMBDA g : g # <<>> /\ g # <<".">>)

C5_RootDepth == Len(package) + Len(kernel_module_out) - 1

C5_Prefixed(expanded) == Str(Rep(DotDot, C5_RootDepth) \o C5_Segments(expanded))

C5_Absolute(expanded) == expanded # <<>> /\ expanded[1] = "/"

C5_Unprefixed(expanded) ==
    (IF Len(expanded) >= 2 /\ expanded[2] = "/"
        /\ ~(Len(expanded) >= 3 /\ expanded[3] = "/")
     THEN <<"/", "/">> ELSE <<"/">>)
    \o Join(C5_Segments(expanded), "/")

C5_ValueAsStated(d) == IF d.is_path THEN C5_Prefixed(d.expanded) ELSE d.expanded

C5_Value(d) ==
    IF ~d.is_path THEN d.expanded
    ELSE IF C5_Absolute(d.expanded) THEN C5_Unprefixed(d.expanded)
    ELSE C5_Prefixed(d.expanded)

\* what the options step adds to the Kbuild when each record has value val(d)
C5_Added(val(_)) ==
    IF ~copt_file.given THEN <<>>
    ELSE <<"\n", "# copts", "\n">>
         \o Concat([k \in 1..Len(copt_file.records) |->
                       WriteCcflag(val(copt_file.records[k]))])

C5_OptionsStep == pc = "copts" /\ pc' = "top_kbuild"

\* C5 as stated: the options step adds one line per record, every path record
\* prefixed with the relative root
C5_AsStated ==
    [][C5_OptionsStep =>
          fs'[kbuild].text = fs[kbuild].text \o C5_Added(C5_ValueAsStated)]_vars

\* C5 as amended: the options step adds one line per record, a path record
\* joined to the relative root as a path (an absolute one left as it is)
C5_OneFlagPerRecord ==
    [][C5_OptionsStep =>
          /\ fs'[kbuild].text = fs[kbuild].text \o C5_Added(C5_Value)
          /\ \A f \in FilePaths \ {kbuild} : fs'[f] = fs[f]]_vars

C5_Witness ==
    /\ pc = "top_kbuild"
    /\ Len(copt_file.records) = 2
    /\ copt_file.records[1] = [expanded |-> <<"opt", "/", "x">>, is_path |-> TRUE]
    /\ copt_file.records[2] = [expanded |-> <<"/", "abs", "/", "x">>, is_path |-> TRUE]
    /\ C5_RootDepth = 2
    /\ CcflagLines = << <<CcflagPrefix, ".", ".", "/", ".", ".", "/", "opt", "/", "x">>,
                        <<CcflagPrefix, "/", "abs", "/", "x">> >>

(***************************************************************************)
(* C7: the module's namesake source never produces an object-composition   *)
(* line; it appears in the Kbuild only as a comment, and no run emits the  *)
(* self-referential line `<module>-y += <module>.o`.                       *)
(***************************************************************************)
C7_SelfLine == ModuleStem \o <<"-y += ">> \o ModuleStem \o <<".", "o">>

C7_SelfComment(src) ==
    <<"# The module ">> \o Str(kernel_module_out)
    \o <<" has a source file ">> \o Str(src)

\* C7: no self-referential object line; a namesake source shows only as a comment
C7_NamesakeOnlyComment ==
    LET lines == KbuildLines
    IN  /\ ~HasLine(lines, C7_SelfLine)
        /\ \A k \in 1..Len(branches) :
              Namesake(rel_srcs[k]) =>
                  /\ branches[k] \notin {"object", "outside"}
                  /\ \A j \in 1..Len(lines) :
                        IsSubstring(Str(rel_srcs[k]), lines[j])
                            => lines[j] = C7_SelfComment(rel_srcs[k])

C7_Witness ==
    /\ pc = "done"
    /\ \E k \in 1..Len(branches) :
          /\ Namesake(rel_srcs[k])
          /\ branches[k] = "self"
          /\ HasLine(KbuildLines, C7_SelfComment(rel_srcs[k]))
    /\ Len(ObjectLines) > 0

(***************************************************************************)
(* C8: when the module output does not end in .ko the run ends in a fatal  *)
(* error with a non-zero exit, and neither the module's Kbuild nor the     *)
(* top-level Kbuild is created, truncated or modified: only the Makefile,  *)
(* written before the check, may have changed.                             *)
(***************************************************************************)
C8_EndsInKo ==
    LET name == Name(kernel_module_out)
    IN  /\ Len(name) >= 2
        /\ SubSeq(name, Len(name) - 1, Len(name)) = <<".", "ko">>

\* C8: with an output not ending in .ko the run dies and no Kbuild is touched
C8_BadOutputWritesNoKbuild ==
    ~C8_EndsInKo =>
        /\ pc \in {"gen_makefile", "check_output", "died", "crashed"}
        /\ ~Running => exit_code = 1
        /\ \A f \in FilePaths \ {<<MakefileName>>} : fs[f] = fs0[f]

C8_Witness ==
    /\ ~C8_EndsInKo
    /\ pc = "died"
    /\ fs[<<MakefileName>>] # fs0[<<MakefileName>>]
    /\ fs0[kbuild].exists
    /\ kernel_module_srcs # <<>>
    /\ include_dirs # <<>>

(***************************************************************************)
(* C9: after a successful run the top-level Kbuild holding                 *)
(* `obj-y += <moduleDir>/` has been written, over any previous one, iff    *)
(* the module lives in a subdirectory; otherwise <outputRoot>/Kbuild is    *)
(* the module's own Kbuild, whose header is `obj-m += <module>.o`.         *)
(***************************************************************************)
C9_Nested == Len(kernel_module_out) > 1

C9_TopLines == Lines(fs[<<KbuildName>>].text)

\* C9: on success the top-level Kbuild recurses into the module directory iff
\* the module is nested
C9_TopKbuildIffNested ==
    pc = "done" =>
        LET top == C9_TopLines
        IN  /\ C9_Nested <=> kbuild # <<KbuildName>>
            /\ fs[<<KbuildName>>].exists
            /\ C9_Nested =>
                  top = << <<"# Build ">> \o Str(package \o kernel_module_out),
                           <<"obj-y += ">> \o Str(ButLast(kernel_module_out)) \o <<"/">> >>
            /\ ~C9_Nested =>
                  /\ ~(\E j \in 1..Len(top) : HasAtom(top[j], "obj-y += "))
                  /\ Len(top) >= 2
                  /\ top[1] = <<"# Build ">> \o Str(package \o kernel_module_out)
                  /\ top[2] = <<"obj-m += ">> \o ModuleStem \o <<".", "o">>

C9_Witness ==
    /\ pc = "done"
    /\ C9_Nested
    /\ fs0[<<KbuildName>>] = StaleFile
    /\ HasLine(C9_TopLines, <<"obj-y += ", "c", "/">>)

(***************************************************************************)
(* C10: when processing a source ends in a fatal error (unrecognized       *)
(* suffix, or a non-namesake source outside the module's directory) the    *)
(* process exits non-zero and nothing more is emitted: the Kbuild holds    *)
(* the header and the lines of the sources before the offending one, no    *)
(* flag lines, the top-level Kbuild is not written, the Makefile stays.    *)
(***************************************************************************)
C10_LinesOf(k) ==
    IF branches[k] = "self" THEN << C7_SelfComment(rel_srcs[k]) >>
    ELSE IF branches[k] = "object"
    THEN << <<"# Source: ">> \o Str(package \o rel_srcs[k]),
            C3_ObjectLineOf(rel_srcs[k]) >>
    ELSE <<>>

C10_Offending == {k \in 1..Len(branches) : branches[k] \in {"invalid", "outside"}}

\* C10: a fatal source ends the run at once, leaving the header and the lines
\* of the sources before it
C10_NothingAfterFatalSource ==
    C10_Offending # {} =>
        /\ C10_Offending = {Len(branches)}
        /\ pc = "died"
        /\ exit_code = 1
        /\ KbuildLines =
              << <<"# Build ">> \o Str(package \o kernel_module_out),
                 <<"obj-m += ">> \o ModuleStem \o <<".", "o">>,
                 <<>> >>
              \o Concat([k \in 1..(Len(branches) - 1) |-> C10_LinesOf(k)])
        /\ CcflagLines = <<>>
        /\ kbuild # <<KbuildName>> => fs[<<KbuildName>>] = fs0[<<KbuildName>>]
        /\ fs[<<MakefileName>>].exists
        /\ HasLine(MakefileLines, <<"modules modules_install clean:">>)

C10_Witness ==
    /\ pc = "died"
    /\ Len(branches) = 2
    /\ branches[1] = "object"
    /\ branches[2] = "outside"
    /\ Len(rel_srcs) = 2
    /\ include_dirs # <<>>
    /\ fs0[<<KbuildName>>] = StaleFile

====
